---- MODULE Spec2Model ----
(***************************************************************************)
(* Smart QR Stream: the scan gate, the history store, the metadata panel   *)
(* and the CSV exporter of src/App.tsx, driven by the Scanner component    *)
(* (src/unnamed/part_003) through onScanRef; the camera effect and frame   *)
(* loop of that Scanner; the exporter of the App variant with AI analysis  *)
(* (src/unnamed/part_001) and its analysis service                         *)
(* (src/services/geminiService.ts).                                        *)
(*                                                                         *)
(* React state.  setItems is always given an updater function (or the      *)
(* constant []), so the variable items is the state with every queued      *)
(* update applied.  The handlers of the inputs and buttons belong to the   *)
(* latest render and React renders before the next input event, so they    *)
(* read the current state.  handleScan is different: the Scanner calls the *)
(* closure stored in onScanRef, which an effect replaces after App has     *)
(* re-rendered; until RefreshHandler runs, that closure reads the items    *)
(* and metadata it captured.  Render and effect are one step: a closure    *)
(* rendered earlier and stored later is a closure of an earlier state      *)
(* either way.                                                             *)
(*                                                                         *)
(* Time.  The clock advances in steps of TickMs; a step stands for an      *)
(* animation frame, in which scanFrame decodes once and so delivers at     *)
(* most one scan event.                                                    *)
(*                                                                         *)
(* Text values (payloads, metadata values, exported text) are sequences of *)
(* one-character strings, so that escaping and joining are computed.       *)
(* An optional value (a ref or state that may be null) is a sequence of    *)
(* length 0 (null) or 1.  The two notification messages are written        *)
(* ALREADY_SCANNED and SCAN_SUCCESS.                                       *)
(***************************************************************************)
EXTENDS Integers, Sequences, FiniteSets, TLC

VARIABLES
    items,            \* App state: ScannedItem[], newest first
    metadata,         \* App state: the metadata draft
    lastScanRef,      \* App ref: last observed payload, <<>> when null
    lastScanTimeRef,  \* App ref: time of the last observation
    toast,            \* App state: <<>> or <<[message, type, id]>>
    onScanRef,        \* Scanner ref: the handleScan closure it holds,
                      \*   i.e. the items and metadata that closure captured
    now,              \* Date.now()
    frameDone,        \* Scanner: the animation frame at this clock value has run
    locale,           \* the browser's locale, used by toLocaleString
    nextId,           \* the next fresh value of crypto.randomUUID()
    observedAt,       \* history variable: per payload, the time of its last
                      \*   scan that passed the cooldown check, -1 if none
    ev,               \* the kind of event whose handler ran last
    out,              \* the outside effects of that handler run
    mounted,          \* Scanner: the component is mounted
    isScanningPaused, \* App state, passed to the Scanner as isPaused
    status,           \* Scanner state: ScannerStatus
    runs,             \* Scanner: the runs of the camera effect, oldest first;
                      \*   each holds what its closures captured and its stream
    scheduled,        \* the runs whose scanFrame has a frame callback pending
    animationFrameRef,\* Scanner ref: <<>> or <<k>>, the id of the callback
                      \*   that the scanFrame of run k requested last
    srcObject,        \* the video element's stream: <<>> or <<k>>
    API_KEY,          \* process.env.API_KEY: <<>> undefined, else <<text>>
    call,             \* analyzeScannedItems: "idle", "awaiting" or "settled"
    endpointCalls,    \* the number of generateContent calls made
    endpoint,         \* the outcome of generateContent: <<>> while none,
                      \*   else <<[ok, text]>>, text being response.text
                      \*   (<<>> undefined) or the error thrown
    promise,          \* the promise of analyzeScannedItems: <<>> while
                      \*   unsettled, else <<[fulfilled, value]>>
    analysis,         \* App state (part_001): <<>> null, else <<text>>
    isAnalyzing,      \* App state (part_001)
    inFlight,         \* the number of handleAnalyze calls awaiting their result
    discarded,        \* history variable: a clear-all has been confirmed and
                      \*   no analysis has been started since
    timer,            \* App: the pending timeout of the toast effect, <<>> or
                      \*   <<[shown, due]>>: the toast it was started for and
                      \*   the time it is due
    effectToast       \* App: the toast the toast effect last ran with

gateVars == <<items, metadata, lastScanRef, lastScanTimeRef, toast, onScanRef,
              now, frameDone, locale, nextId, observedAt, ev, out>>

scannerVars == <<mounted, isScanningPaused, status, runs, scheduled,
                 animationFrameRef, srcObject>>

insightVars == <<API_KEY, call, endpointCalls, endpoint, promise>>

analysisVars == <<analysis, isAnalyzing, inFlight, discarded>>

toastVars == <<timer, effectToast>>

vars == <<gateVars, scannerVars, insightVars, analysisVars, toastVars>>

----------------------------------------------------------------------------
(* Bounds of the model *)

TickMs == 500       \* the clock advances in steps of TickMs milliseconds
Horizon == 1600     \* the clock runs for Horizon milliseconds
MaxLen == 2         \* exported text values have at most MaxLen characters
MaxRows == 2        \* the export specification starts from 0..MaxRows records
MaxRuns == 3        \* the camera effect of the Scanner runs at most MaxRuns times
MaxAnalyses == 2    \* generateContent is called at most MaxAnalyses times
ToastHorizon == 3000 \* toasts are shown during ToastHorizon milliseconds

(* Program constants *)

Cooldown == 1500

DQ == "\""
BOM == "BOM"        \* the single character U+FEFF
QR_CODE == <<"Q", "R", "_", "C", "O", "D", "E">>

Payloads == {<<"a">>, <<"b">>}
MetaValues == {<<"X">>}
FieldNames == {"schoolName", "grade", "className", "inputterName"}
EditedFields == {"schoolName", "inputterName"}   \* the inputs the model types into
Locales == {"en-US", "ja-JP"}

Alphabet == {"a", DQ}

\* the payload He said "hi"
HeSaidHi == <<"H", "e", " ", "s", "a", "i", "d", " ", DQ, "h", "i", DQ>>

\* the text values the export specification draws from
Texts == UNION {[1..n -> Alphabet] : n \in 0..MaxLen} \cup {HeSaidHi}

\* the payloads of the older records of those histories
OlderTexts == {<<"a">>, <<DQ, "a">>}

StartTime == Cooldown + TickMs
MaxTime == StartTime + Horizon

EmptyMetadata ==
    [schoolName |-> <<>>, grade |-> <<>>, className |-> <<>>, inputterName |-> <<>>]

NoFx == [beeps |-> 0, toasts |-> <<>>, clipboard |-> <<>>, download |-> <<>>]

Event(op, confirmed) == [op |-> op, confirmed |-> confirmed]

NoEvent == Event("none", FALSE)

----------------------------------------------------------------------------
(* Pure helpers *)

MetadataOf(item) ==
    [schoolName |-> item.schoolName, grade |-> item.grade,
     className |-> item.className, inputterName |-> item.inputterName]

\* the cooldown condition with the comparison turned round
InCooldownInverted(content, t) ==
    lastScanRef = <<content>> /\ t - lastScanTimeRef > Cooldown

\* content === lastScanRef.current && now - lastScanTimeRef.current < 1500
InCooldown(content, t) ==
    lastScanRef = <<content>> /\ t - lastScanTimeRef < Cooldown

\* items.some(item => item.content === content)
isDuplicate(its, content) == \E i \in 1..Len(its) : its[i].content = content

\* the ScannedItem literal of handleScan
newItem(id, content, format, t, md) ==
    [id |-> id, content |-> content, format |-> format, timestamp |-> t,
     schoolName |-> md.schoolName, grade |-> md.grade,
     className |-> md.className, inputterName |-> md.inputterName]

\* (prev) => [newItem, ...prev]
\* prev with the new record added at the end
PrependAtEnd(item, prev) == prev \o <<item>>

\* prev with the new record added twice
PrependTwice(item, prev) == <<item, item>> \o prev

Prepend(item, prev) == <<item>> \o prev

\* the filter keeping the matching record instead of the others
DeleteByIdInverted(prev, id) == SelectSeq(prev, LAMBDA item : item.id = id)

\* (prev) => prev.filter((item) => item.id !== id)
DeleteById(prev, id) == SelectSeq(prev, LAMBDA item : item.id # id)

\* { ...metadata, [name]: value }
\* a draft holding the edited field only
SetFieldAlone(md, name, value) == [EmptyMetadata EXCEPT ![name] = value]

SetField(md, name, value) == [md EXCEPT ![name] = value]

\* the overwrite reading the draft of the current render instead of newMetadata
OverwriteMetadataFromOldDraft(prevItems, newMetadata) ==
    [i \in 1..Len(prevItems) |->
        [prevItems[i] EXCEPT !.schoolName = metadata.schoolName,
                             !.grade = metadata.grade,
                             !.className = metadata.className,
                             !.inputterName = metadata.inputterName]]

\* prevItems.map(item => ({ ...item, schoolName: newMetadata.schoolName, ... }))
\* the overwrite stamping the records with the time of the edit as well
OverwriteMetadataAndTime(prevItems, newMetadata) ==
    [i \in 1..Len(prevItems) |->
        [prevItems[i] EXCEPT !.schoolName = newMetadata.schoolName,
                             !.grade = newMetadata.grade,
                             !.className = newMetadata.className,
                             !.inputterName = newMetadata.inputterName,
                             !.timestamp = now]]

OverwriteMetadata(prevItems, newMetadata) ==
    [i \in 1..Len(prevItems) |->
        [prevItems[i] EXCEPT !.schoolName = newMetadata.schoolName,
                             !.grade = newMetadata.grade,
                             !.className = newMetadata.className,
                             !.inputterName = newMetadata.inputterName]]

\* showToast(message, type): setToast({ message, type, id: Date.now() })
Toast(message, type) == <<[message |-> message, type |-> type, id |-> now]>>

----------------------------------------------------------------------------
(* The state of the Scanner and of the analysis service after construction *)

\* ScannerStatus
IDLE == "IDLE"
SCANNING == "SCANNING"
PERMISSION_DENIED == "PERMISSION_DENIED"

\* One run of the camera effect: the isPaused its scanFrame closure captured,
\* the state of its getUserMedia request ("pending", "granted" or "denied"),
\* and whether the tracks of the stream it was granted have been stopped.
EffectRun(paused) == [isPaused |-> paused, request |-> "pending", stopped |-> FALSE]

\* The Scanner has mounted with isPaused = false and its effect has run once:
\* startCamera has set the status and awaits getUserMedia.
InitScanner ==
    /\ mounted = TRUE
    /\ isScanningPaused = FALSE
    /\ status = SCANNING
    /\ runs = <<EffectRun(FALSE)>>
    /\ scheduled = {}
    /\ animationFrameRef = <<>>
    /\ srcObject = <<>>

\* analyzeScannedItems has not been called
InitInsight ==
    /\ call = "idle"
    /\ endpointCalls = 0
    /\ endpoint = <<>>
    /\ promise = <<>>

\* useState<string | null>(null), useState(false)
InitAnalysis ==
    /\ analysis = <<>>
    /\ isAnalyzing = FALSE
    /\ inFlight = 0
    /\ discarded = FALSE

\* no toast has been shown: the toast effect ran with null and set no timer
InitToast ==
    /\ timer = <<>>
    /\ effectToast = <<>>

----------------------------------------------------------------------------
(* Init *)

Init ==
    /\ items = <<>>
    /\ metadata = EmptyMetadata
    /\ lastScanRef = <<>>
    /\ lastScanTimeRef = 0
    /\ toast = <<>>
    /\ onScanRef = [items |-> <<>>, metadata |-> EmptyMetadata]
    /\ now = StartTime
    /\ frameDone = FALSE
    /\ locale = "ja-JP"
    /\ nextId = 1
    /\ observedAt = [p \in Payloads |-> -1]
    /\ ev = NoEvent
    /\ out = NoFx
    /\ InitScanner
    /\ InitInsight
    /\ InitAnalysis
    /\ InitToast
    /\ API_KEY = <<>>

----------------------------------------------------------------------------
(* Actions *)

\* handleScan recording the time of a dropped scan as well
handleScanExtendingWindow(content, format) ==
    /\ ~frameDone
    /\ frameDone' = TRUE
    /\ ev' = Event("scan", FALSE)
    /\ UNCHANGED <<metadata, onScanRef, now, locale>>
    /\ IF InCooldown(content, now)
       THEN /\ out' = NoFx
            /\ lastScanTimeRef' = now
            /\ UNCHANGED <<items, lastScanRef, toast, nextId, observedAt>>
       ELSE /\ lastScanRef' = <<content>>
            /\ lastScanTimeRef' = now
            /\ observedAt' = [observedAt EXCEPT ![content] = now]
            /\ IF isDuplicate(onScanRef.items, content)
               THEN /\ toast' = Toast("ALREADY_SCANNED", "warning")
                    /\ out' = [NoFx EXCEPT !.beeps = 1, !.toasts = <<"warning">>]
                    /\ UNCHANGED <<items, nextId>>
               ELSE /\ items' = Prepend(newItem(nextId, content, format, now,
                                                onScanRef.metadata), items)
                    /\ nextId' = nextId + 1
                    /\ toast' = Toast("SCAN_SUCCESS", "success")
                    /\ out' = [NoFx EXCEPT !.beeps = 1, !.toasts = <<"success">>]

\* Scanner: onScanRef.current(code.data, "QR_CODE"), i.e. handleScan as the
\* closure held in onScanRef sees items and metadata.
handleScan(content, format) ==
    /\ ~frameDone
    /\ frameDone' = TRUE
    /\ ev' = Event("scan", FALSE)
    /\ UNCHANGED <<metadata, onScanRef, now, locale>>
    /\ IF InCooldown(content, now)
       THEN /\ out' = NoFx
            /\ UNCHANGED <<items, lastScanRef, lastScanTimeRef, toast, nextId, observedAt>>
       ELSE /\ lastScanRef' = <<content>>
            /\ lastScanTimeRef' = now
            /\ observedAt' = [observedAt EXCEPT ![content] = now]
            /\ IF isDuplicate(onScanRef.items, content)
               THEN /\ toast' = Toast("ALREADY_SCANNED", "warning")
                    /\ out' = [NoFx EXCEPT !.beeps = 1, !.toasts = <<"warning">>]
                    /\ UNCHANGED <<items, nextId>>
               ELSE /\ items' = Prepend(newItem(nextId, content, format, now,
                                                onScanRef.metadata), items)
                    /\ nextId' = nextId + 1
                    /\ toast' = Toast("SCAN_SUCCESS", "success")
                    /\ out' = [NoFx EXCEPT !.beeps = 1, !.toasts = <<"success">>]

\* Scanner: useEffect(() => { onScanRef.current = onScan }, [onScan]) after App
\* re-rendered and useCallback re-created handleScan from the current state.
RefreshHandler ==
    /\ onScanRef # [items |-> items, metadata |-> metadata]
    /\ onScanRef' = [items |-> items, metadata |-> metadata]
    /\ UNCHANGED <<items, metadata, lastScanRef, lastScanTimeRef, toast, now,
                   frameDone, locale, nextId, observedAt, ev, out>>
    /\ UNCHANGED <<scannerVars, insightVars, analysisVars, toastVars>>

\* setItems((prev) => prev.filter((item) => item.id !== id))
handleDelete(id) ==
    /\ items' = DeleteById(items, id)
    /\ ev' = Event("delete", FALSE)
    /\ out' = NoFx
    /\ UNCHANGED <<metadata, lastScanRef, lastScanTimeRef, toast, onScanRef, now,
                   frameDone, locale, nextId, observedAt>>
    /\ UNCHANGED <<scannerVars, insightVars, analysisVars, toastVars>>

\* handleClear without the test of confirm's answer
handleClearIgnoringAnswer(confirmed) ==
    /\ ev' = Event("clear", confirmed)
    /\ out' = NoFx
    /\ items' = <<>>
    /\ lastScanRef' = <<>>
    /\ UNCHANGED <<metadata, lastScanTimeRef, toast, onScanRef, now, frameDone,
                   locale, nextId, observedAt>>
    /\ UNCHANGED <<scannerVars, insightVars, analysisVars, toastVars>>

\* if (confirm(...)) { setItems([]); lastScanRef.current = null; }
handleClear(confirmed) ==
    /\ ev' = Event("clear", confirmed)
    /\ out' = NoFx
    /\ IF confirmed
       THEN /\ items' = <<>>
            /\ lastScanRef' = <<>>
       ELSE UNCHANGED <<items, lastScanRef>>
    /\ UNCHANGED <<metadata, lastScanTimeRef, toast, onScanRef, now, frameDone,
                   locale, nextId, observedAt>>
    /\ UNCHANGED <<scannerVars, insightVars, analysisVars, toastVars>>

\* newMetadata = { ...metadata, [name]: value }; setMetadata(newMetadata);
\* setItems(prevItems => prevItems.map(...))
handleMetadataChange(name, value) ==
    /\ LET newMetadata == SetField(metadata, name, value)
       IN /\ metadata' = newMetadata
          /\ items' = OverwriteMetadata(items, newMetadata)
    /\ ev' = Event("metadata", FALSE)
    /\ out' = NoFx
    /\ UNCHANGED <<lastScanRef, lastScanTimeRef, toast, onScanRef, now, frameDone,
                   locale, nextId, observedAt>>
    /\ UNCHANGED <<scannerVars, insightVars, analysisVars, toastVars>>

\* requestAnimationFrame(scanFrame): the next frame, TickMs later
Tick ==
    /\ now + TickMs <= MaxTime
    /\ now' = now + TickMs
    /\ frameDone' = FALSE
    /\ UNCHANGED <<items, metadata, lastScanRef, lastScanTimeRef, toast, onScanRef,
                   locale, nextId, observedAt, ev, out>>
    /\ UNCHANGED <<scannerVars, insightVars, analysisVars, toastVars>>

\* Here the camera is left out: some frame delivers the payload c.
Next ==
    \/ \E c \in Payloads :
          handleScan(c, QR_CODE) /\ UNCHANGED <<scannerVars, insightVars, analysisVars, toastVars>>
    \/ RefreshHandler
    \/ \E id \in 1..(nextId - 1) : handleDelete(id)
    \/ \E b \in BOOLEAN : handleClear(b)
    \/ \E n \in EditedFields, v \in MetaValues : handleMetadataChange(n, v)
    \/ Tick

Spec == Init /\ [][Next]_vars

----------------------------------------------------------------------------
(* The exporter *)

\* the replace without the g flag: the first quote only
ReplaceFirstQuote(s) ==
    IF \E k \in 1..Len(s) : s[k] = DQ
    THEN LET k == CHOOSE k \in 1..Len(s) : s[k] = DQ /\ \A j \in 1..(k - 1) : s[j] # DQ
         IN SubSeq(s, 1, k) \o <<DQ>> \o SubSeq(s, k + 1, Len(s))
    ELSE s

\* s.replace(/"/g, '""')
RECURSIVE ReplaceQuotes(_)
ReplaceQuotes(s) ==
    IF s = <<>> THEN <<>>
    ELSE (IF Head(s) = DQ THEN <<DQ, DQ>> ELSE <<Head(s)>>) \o ReplaceQuotes(Tail(s))

\* `"${s.replace(/"/g, '""')}"`
Safe(s) == <<DQ>> \o ReplaceQuotes(s) \o <<DQ>>

\* the decimal digits of a natural number
DigitChars == <<"0", "1", "2", "3", "4", "5", "6", "7", "8", "9">>

RECURSIVE Digits(_)
Digits(n) ==
    IF n < 10 THEN <<DigitChars[n + 1]>>
    ELSE Digits(n \div 10) \o <<DigitChars[(n % 10) + 1]>>

\* new Date(timestamp).toLocaleString(): the browser's rendering of the
\* instant in its locale.  The calendar arithmetic is the browser's and is
\* abstracted to the digits of the instant; the punctuation of the locale is
\* kept: en-US writes "11/2/2026, 8:03:00 AM", ja-JP "2026/11/2 8:03:00".
toLocaleString(timestamp, loc) ==
    IF loc = "en-US"
    THEN Digits(timestamp) \o <<",", " ", "A", "M">>
    ELSE Digits(timestamp)

\* array.join(sep) of an array of texts
RECURSIVE Join(_, _)
Join(texts, sep) ==
    IF texts = <<>> THEN <<>>
    ELSE IF Len(texts) = 1 THEN texts[1]
    ELSE texts[1] \o sep \o Join(Tail(texts), sep)

\* The header line; each column title is written as one symbol.
Headers ==
    Join(<<<<"schoolName">>, <<"grade">>, <<"className">>, <<"inputterName">>,
           <<"timestamp">>, <<"content">>, <<"format">>>>, <<",">>)

\* the seven pieces of one row, in the order of the template literal
RowFields(item, loc) ==
    <<Safe(item.schoolName), Safe(item.grade), Safe(item.className),
      Safe(item.inputterName), toLocaleString(item.timestamp, loc),
      Safe(item.content), item.format>>

\* `${safeSchool},${safeGrade},${safeClass},${safeInputter},${date},${safeContent},${item.format}`
Row(item, loc) == Join(RowFields(item, loc), <<",">>)

\* [headers, ...rows].join('\n')
CsvText(its, loc) ==
    Join(<<Headers>> \o [i \in 1..Len(its) |-> Row(its[i], loc)], <<"\n">>)

\* csvContent = BOM + [headers, ...rows].join('\n')
CsvContent(its, loc) == <<BOM>> \o CsvText(its, loc)

\* handleCopyAll builds its text with code of its own, a second copy of the
\* header literal, of the row template and of the join:
\* headers = ['...'] of handleCopyAll
CopyHeaders ==
    Join(<<<<"schoolName">>, <<"grade">>, <<"className">>, <<"inputterName">>,
           <<"timestamp">>, <<"content">>, <<"format">>>>, <<",">>)

\* a row of handleCopyAll with its fields separated by tabs
CopyRowTabbed(item, loc) ==
    Join(<<Safe(item.schoolName), Safe(item.grade), Safe(item.className),
           Safe(item.inputterName), toLocaleString(item.timestamp, loc),
           Safe(item.content), item.format>>, <<"\t">>)

\* the row template of handleCopyAll
CopyRow(item, loc) ==
    Join(<<Safe(item.schoolName), Safe(item.grade), Safe(item.className),
           Safe(item.inputterName), toLocaleString(item.timestamp, loc),
           Safe(item.content), item.format>>, <<",">>)

\* text = [headers, ...rows].join('\n')
CopyText(its, loc) ==
    Join(<<CopyHeaders>> \o [i \in 1..Len(its) |-> CopyRow(its[i], loc)],
         <<"\n">>)

\* if (items.length === 0) return; navigator.clipboard.writeText(text)
handleCopyAll ==
    /\ ev' = Event("copy", FALSE)
    /\ out' = IF Len(items) = 0 THEN NoFx
              ELSE [NoFx EXCEPT !.clipboard = <<CopyText(items, locale)>>]
    /\ UNCHANGED <<items, metadata, lastScanRef, lastScanTimeRef, toast, onScanRef,
                   now, frameDone, locale, nextId, observedAt>>
    /\ UNCHANGED <<scannerVars, insightVars, analysisVars, toastVars>>

\* handleDownloadCSV without the test of items.length
handleDownloadCSVUnguarded ==
    /\ ev' = Event("download", FALSE)
    /\ out' = [NoFx EXCEPT !.download = <<CsvContent(items, locale)>>]
    /\ UNCHANGED <<items, metadata, lastScanRef, lastScanTimeRef, toast, onScanRef,
                   now, frameDone, locale, nextId, observedAt>>
    /\ UNCHANGED <<scannerVars, insightVars, analysisVars, toastVars>>

\* if (items.length === 0) return; the Blob of csvContent is downloaded
handleDownloadCSV ==
    /\ ev' = Event("download", FALSE)
    /\ out' = IF Len(items) = 0 THEN NoFx
              ELSE [NoFx EXCEPT !.download = <<CsvContent(items, locale)>>]
    /\ UNCHANGED <<items, metadata, lastScanRef, lastScanTimeRef, toast, onScanRef,
                   now, frameDone, locale, nextId, observedAt>>
    /\ UNCHANGED <<scannerVars, insightVars, analysisVars, toastVars>>

\* The export handlers read the history and change no state of the App, so
\* they are explored from every bounded history rather than interleaved with
\* the scan gate: n records created at successive clock steps, newest first,
\* stamped with one draft.
HistoryOf(contents, md) ==
    [i \in 1..Len(contents) |->
        newItem(Len(contents) + 1 - i, contents[i], QR_CODE,
                StartTime + (Len(contents) - i) * TickMs, md)]

InitExport ==
    /\ \E n \in 0..MaxRows : \E newest \in Texts :
       \E older \in [2..n -> OlderTexts] : \E school \in Texts :
          /\ metadata = [EmptyMetadata EXCEPT !.schoolName = school,
                                              !.inputterName = <<DQ>>]
          /\ items = HistoryOf([i \in 1..n |-> IF i = 1 THEN newest ELSE older[i]],
                               metadata)
          /\ nextId = n + 1
          /\ now = StartTime + n * TickMs
    /\ locale \in Locales
    /\ lastScanRef = IF items = <<>> THEN <<>> ELSE <<Head(items).content>>
    /\ lastScanTimeRef = IF items = <<>> THEN 0 ELSE Head(items).timestamp
    /\ toast = <<>>
    /\ onScanRef = [items |-> items, metadata |-> metadata]
    /\ frameDone = FALSE
    /\ observedAt = [p \in Payloads |-> -1]
    /\ ev = NoEvent
    /\ out = NoFx
    /\ InitScanner
    /\ InitInsight
    /\ InitAnalysis
    /\ InitToast
    /\ API_KEY = <<>>

NextExport ==
    \/ handleCopyAll
    \/ handleDownloadCSV

SpecExport == InitExport /\ [][NextExport]_vars

\* The App variant with AI analysis (src/unnamed/part_001) exports differently:
\* copy-all writes the payloads, one per line, and neither handler looks at
\* the length of the history; their buttons do, being disabled while the
\* history is empty, so the handlers run on a non-empty history only.

\* 'Timestamp,Content,Format,School Name,Grade,Class,Inputter Name'
Headers_001 ==
    Join(<<<<"Timestamp">>, <<"Content">>, <<"Format">>, <<"School Name">>,
           <<"Grade">>, <<"Class">>, <<"Inputter Name">>>>, <<",">>)

\* `${date},${safeContent},${item.format},${safeSchool},${safeGrade},${safeClass},${safeInputter}`
Row_001(item, loc) ==
    Join(<<toLocaleString(item.timestamp, loc), Safe(item.content), item.format,
           Safe(item.schoolName), Safe(item.grade), Safe(item.className),
           Safe(item.inputterName)>>, <<",">>)

\* csvContent = BOM + [headers, ...rows].join('\n')
CsvContent_001(its, loc) ==
    <<BOM>> \o Join(<<Headers_001>> \o [i \in 1..Len(its) |-> Row_001(its[i], loc)],
                    <<"\n">>)

\* The button is disabled={items.length === 0};
\* navigator.clipboard.writeText(items.map((i) => i.content).join('\n'))
handleCopyAll_001 ==
    /\ items # <<>>
    /\ ev' = Event("copy", FALSE)
    /\ out' = [NoFx EXCEPT !.clipboard =
                  <<Join([i \in 1..Len(items) |-> items[i].content], <<"\n">>)>>]
    /\ UNCHANGED <<items, metadata, lastScanRef, lastScanTimeRef, toast, onScanRef,
                   now, frameDone, locale, nextId, observedAt>>
    /\ UNCHANGED <<scannerVars, insightVars, analysisVars, toastVars>>

\* The button is disabled={items.length === 0}; the Blob of csvContent is
\* downloaded
handleDownloadCSV_001 ==
    /\ items # <<>>
    /\ ev' = Event("download", FALSE)
    /\ out' = [NoFx EXCEPT !.download = <<CsvContent_001(items, locale)>>]
    /\ UNCHANGED <<items, metadata, lastScanRef, lastScanTimeRef, toast, onScanRef,
                   now, frameDone, locale, nextId, observedAt>>
    /\ UNCHANGED <<scannerVars, insightVars, analysisVars, toastVars>>

NextExport_001 ==
    \/ handleCopyAll_001
    \/ handleDownloadCSV_001

SpecExport_001 == InitExport /\ [][NextExport_001]_vars

----------------------------------------------------------------------------
(* The Scanner's camera effect and frame loop (src/unnamed/part_003)        *)
(*                                                                         *)
(* scanFrame is re-created when isPaused changes and the camera effect     *)
(* depends on scanFrame, so each change of isPaused cleans the effect up   *)
(* and runs it again.  Every run has its own `stream` variable and its own *)
(* scanFrame closure; a closure requests the next frame for itself, so the *)
(* callbacks of one run form one loop with at most one callback pending.   *)
(* animationFrameRef is shared by all runs.  The video and canvas elements *)
(* exist while the component is mounted and status is SCANNING.            *)

\* videoRef.current && canvasRef.current
HasVideo == mounted /\ status = SCANNING

\* video.readyState === video.HAVE_ENOUGH_DATA: the video shows a live stream
HasFrame == srcObject # <<>> /\ ~runs[srcObject[1]].stopped

\* cancelAnimationFrame(animationFrameRef.current)
CancelFrame ==
    IF animationFrameRef = <<>> THEN scheduled
    ELSE scheduled \ {animationFrameRef[1]}

\* if (stream) stream.getTracks().forEach(track => track.stop()), in run k
StopTracks(k) ==
    IF runs[k].request = "granted" THEN [runs EXCEPT ![k].stopped = TRUE]
    ELSE runs

\* onChange={() => setIsScanningPaused(!isScanningPaused)}; the Scanner
\* re-renders with a new scanFrame, the cleanup of the latest run of the
\* effect is executed and the effect runs again: startCamera sets the status
\* and calls getUserMedia.
TogglePause ==
    /\ mounted
    /\ Len(runs) < MaxRuns
    /\ isScanningPaused' = ~isScanningPaused
    /\ scheduled' = CancelFrame
    /\ runs' = Append(StopTracks(Len(runs)), EffectRun(~isScanningPaused))
    /\ status' = SCANNING
    /\ srcObject' = IF status = SCANNING THEN srcObject ELSE <<>>
    /\ ev' = Event("pause", FALSE)
    /\ out' = NoFx
    /\ UNCHANGED <<mounted, animationFrameRef, items, metadata, lastScanRef,
                   lastScanTimeRef, toast, onScanRef, now, frameDone, locale,
                   nextId, observedAt, insightVars, analysisVars, toastVars>>

\* stream = await getUserMedia(constraints) of run k is granted;
\* if (videoRef.current) { srcObject = stream; play(); requestAnimationFrame }
getUserMediaResolves(k) ==
    /\ k <= Len(runs)
    /\ runs[k].request = "pending"
    /\ runs' = [runs EXCEPT ![k].request = "granted"]
    /\ IF HasVideo
       THEN /\ srcObject' = <<k>>
            /\ scheduled' = scheduled \cup {k}
            /\ animationFrameRef' = <<k>>
       ELSE UNCHANGED <<srcObject, scheduled, animationFrameRef>>
    /\ UNCHANGED <<mounted, isScanningPaused, status, gateVars, insightVars, analysisVars, toastVars>>

\* getUserMedia of run k fails: setStatus(PERMISSION_DENIED), which removes
\* the video element
getUserMediaRejects(k) ==
    /\ k <= Len(runs)
    /\ runs[k].request = "pending"
    /\ runs' = [runs EXCEPT ![k].request = "denied"]
    /\ IF mounted
       THEN status' = PERMISSION_DENIED /\ srcObject' = <<>>
       ELSE UNCHANGED <<status, srcObject>>
    /\ UNCHANGED <<mounted, isScanningPaused, scheduled, animationFrameRef,
                   gateVars, insightVars, analysisVars, toastVars>>

\* The frame callback of run k is executed.  Without the elements it returns;
\* with the isPaused it captured it only requests the next frame; otherwise it
\* decodes the frame, if there is one, hands a code it found to
\* onScanRef.current, and requests the next frame.
scanFrame(k) ==
    /\ k \in scheduled
    /\ UNCHANGED <<mounted, isScanningPaused, status, runs, srcObject, insightVars, analysisVars, toastVars>>
    /\ IF ~HasVideo
       THEN /\ scheduled' = scheduled \ {k}
            /\ UNCHANGED <<animationFrameRef, gateVars>>
       ELSE /\ scheduled' = scheduled
            /\ animationFrameRef' = <<k>>
            /\ IF runs[k].isPaused
               THEN UNCHANGED gateVars
               ELSE \/ UNCHANGED gateVars
                    \/ /\ HasFrame
                       /\ \E c \in Payloads : handleScan(c, QR_CODE)

\* The component unmounts: React clears the element refs and executes the
\* cleanup of the latest run of the effect.
Unmount ==
    /\ mounted
    /\ mounted' = FALSE
    /\ scheduled' = CancelFrame
    /\ runs' = StopTracks(Len(runs))
    /\ srcObject' = <<>>
    /\ UNCHANGED <<isScanningPaused, status, animationFrameRef, gateVars,
                   insightVars, analysisVars, toastVars>>

NextScanner ==
    \/ TogglePause
    \/ \E k \in 1..MaxRuns : getUserMediaResolves(k)
    \/ \E k \in 1..MaxRuns : getUserMediaRejects(k)
    \/ \E k \in 1..MaxRuns : scanFrame(k)
    \/ Unmount
    \/ RefreshHandler
    \/ Tick

SpecScanner == Init /\ [][NextScanner]_vars

----------------------------------------------------------------------------
(* The analysis service: analyzeScannedItems of src/services/geminiService.ts *)

\* The four fixed strings the function can return, each written as one symbol.
NOT_CONFIGURED == <<"API Key not configured. Unable to analyze.">>
NO_ITEMS == <<"No items to analyze.">>
NO_TEXT == <<"Could not generate analysis.">>
FAILED == <<"Failed to analyze items. Please try again.">>

\* the error a failed call throws
NetworkError == <<"NetworkError">>

\* A string or undefined is an optional text; undefined and '' are falsy.
Falsy(opt) == opt = <<>> \/ opt[1] = <<>>

\* a ?? b, which keeps the empty string
OrElseIfUndefined(opt, fallback) == IF opt = <<>> THEN fallback ELSE opt[1]

\* a || b on an optional text
OrElse(opt, fallback) == IF Falsy(opt) THEN fallback ELSE opt[1]

\* a catch block that throws the error on
Rethrown(error) == [fulfilled |-> FALSE, value |-> error]

\* catch (error) { console.error(...); return "Failed to analyze items. ..."; }
Caught(error) == [fulfilled |-> TRUE, value |-> FAILED]

\* the values of process.env.API_KEY: undefined, '' and a key
Keys == {<<>>, <<<<>>>>, <<<<"k">>>>}

\* the values of response.text: undefined, or a text; one text is the wording
\* of the failure message
ResponseTexts == {<<>>} \cup {<<t>> : t \in Texts \cup {FAILED}}

\* analyzeScannedItems with its first two tests in the other order
analyzeScannedItemsListFirst ==
    /\ call = "idle"
    /\ IF Len(items) = 0
       THEN /\ call' = "settled"
            /\ promise' = <<[fulfilled |-> TRUE, value |-> NO_ITEMS]>>
            /\ UNCHANGED endpointCalls
       ELSE IF Falsy(API_KEY)
       THEN /\ call' = "settled"
            /\ promise' = <<[fulfilled |-> TRUE, value |-> NOT_CONFIGURED]>>
            /\ UNCHANGED endpointCalls
       ELSE /\ call' = "awaiting"
            /\ endpointCalls' = endpointCalls + 1
            /\ UNCHANGED promise
    /\ UNCHANGED <<API_KEY, endpoint, gateVars, scannerVars, analysisVars, toastVars>>

\* The function up to its await: the two early returns, or else the client is
\* constructed (with a key it does not throw), the prompt is built and
\* ai.models.generateContent is called.
analyzeScannedItems ==
    /\ call = "idle"
    /\ IF Falsy(API_KEY)
       THEN /\ call' = "settled"
            /\ promise' = <<[fulfilled |-> TRUE, value |-> NOT_CONFIGURED]>>
            /\ UNCHANGED endpointCalls
       ELSE IF Len(items) = 0
       THEN /\ call' = "settled"
            /\ promise' = <<[fulfilled |-> TRUE, value |-> NO_ITEMS]>>
            /\ UNCHANGED endpointCalls
       ELSE /\ call' = "awaiting"
            /\ endpointCalls' = endpointCalls + 1
            /\ UNCHANGED promise
    /\ UNCHANGED <<API_KEY, endpoint, gateVars, scannerVars, analysisVars, toastVars>>

\* The call succeeds: return response.text || "Could not generate analysis."
generateContentResolves(text) ==
    /\ call = "awaiting"
    /\ endpoint' = <<[ok |-> TRUE, text |-> text]>>
    /\ promise' = <<[fulfilled |-> TRUE, value |-> OrElse(text, NO_TEXT)]>>
    /\ call' = "settled"
    /\ UNCHANGED <<API_KEY, endpointCalls, gateVars, scannerVars, analysisVars, toastVars>>

\* The call throws or its promise rejects: the catch block returns.
generateContentRejects ==
    /\ call = "awaiting"
    /\ endpoint' = <<[ok |-> FALSE, text |-> <<NetworkError>>]>>
    /\ promise' = <<Caught(NetworkError)>>
    /\ call' = "settled"
    /\ UNCHANGED <<API_KEY, endpointCalls, gateVars, scannerVars, analysisVars, toastVars>>

\* The function is called once, with any bounded item list and any value of
\* API_KEY.
InitAnalyze ==
    /\ \E n \in 0..MaxRows : \E contents \in [1..n -> Payloads] :
          /\ items = HistoryOf(contents, EmptyMetadata)
          /\ nextId = n + 1
          /\ now = StartTime + n * TickMs
    /\ metadata = EmptyMetadata
    /\ locale \in Locales
    /\ lastScanRef = IF items = <<>> THEN <<>> ELSE <<Head(items).content>>
    /\ lastScanTimeRef = IF items = <<>> THEN 0 ELSE Head(items).timestamp
    /\ toast = <<>>
    /\ onScanRef = [items |-> items, metadata |-> metadata]
    /\ frameDone = FALSE
    /\ observedAt = [p \in Payloads |-> -1]
    /\ ev = NoEvent
    /\ out = NoFx
    /\ InitScanner
    /\ InitInsight
    /\ InitAnalysis
    /\ InitToast
    /\ API_KEY \in Keys

NextAnalyze ==
    \/ analyzeScannedItems
    \/ \E text \in ResponseTexts : generateContentResolves(text)
    \/ generateContentRejects

SpecAnalyze == InitAnalyze /\ [][NextAnalyze]_vars

----------------------------------------------------------------------------
(* The App variant with AI analysis (src/unnamed/part_001): a cooldown of   *)
(* 2000 ms, no duplicate test, no notification, no retroactive overwrite,  *)
(* and the Analyze button.  The continuation of handleAnalyze after its    *)
(* await runs in the microtasks that follow the settling of the call, so   *)
(* the settling and the two state updates are one step.                    *)

Cooldown_001 == 2000

\* the texts of the responses tried here: undefined and a summary
Summaries == {<<>>, <<<<"a">>>>}

\* the outcomes of generateContent
Outcomes == {[ok |-> TRUE, text |-> t] : t \in Summaries}
            \cup {[ok |-> FALSE, text |-> <<NetworkError>>]}

\* content === lastScanRef.current && now - lastScanTimeRef.current < 2000
InCooldown_001(content, t) ==
    lastScanRef = <<content>> /\ t - lastScanTimeRef < Cooldown_001

\* handleScan of part_001, as the closure the Scanner holds
handleScan_001(content, format) ==
    /\ ~frameDone
    /\ frameDone' = TRUE
    /\ ev' = Event("scan", FALSE)
    /\ UNCHANGED <<metadata, onScanRef, now, locale, toast, toastVars>>
    /\ IF InCooldown_001(content, now)
       THEN /\ out' = NoFx
            /\ UNCHANGED <<items, lastScanRef, lastScanTimeRef, nextId, observedAt>>
       ELSE /\ lastScanRef' = <<content>>
            /\ lastScanTimeRef' = now
            /\ observedAt' = [observedAt EXCEPT ![content] = now]
            /\ items' = Prepend(newItem(nextId, content, format, now,
                                        onScanRef.metadata), items)
            /\ nextId' = nextId + 1
            /\ out' = [NoFx EXCEPT !.beeps = 1]
    /\ UNCHANGED <<scannerVars, insightVars, analysisVars, toastVars>>

\* The Scanner takes the handleScan that useCallback re-created because
\* metadata changed (deps [metadata]); this closure reads no items.
RefreshHandler_001 ==
    /\ onScanRef.metadata # metadata
    /\ onScanRef' = [onScanRef EXCEPT !.metadata = metadata]
    /\ UNCHANGED <<items, metadata, lastScanRef, lastScanTimeRef, toast, now,
                   frameDone, locale, nextId, observedAt, ev, out>>
    /\ UNCHANGED <<scannerVars, insightVars, analysisVars, toastVars>>

\* if (confirm(...)) { setItems([]); setAnalysis(null); }
handleClear_001(confirmed) ==
    /\ ev' = Event("clear", confirmed)
    /\ out' = NoFx
    /\ IF confirmed
       THEN /\ items' = <<>>
            /\ analysis' = <<>>
            /\ discarded' = TRUE
       ELSE UNCHANGED <<items, analysis, discarded>>
    /\ UNCHANGED <<metadata, lastScanRef, lastScanTimeRef, toast, onScanRef, now,
                   frameDone, locale, nextId, observedAt, isAnalyzing, inFlight>>
    /\ UNCHANGED <<scannerVars, insightVars, toastVars>>

\* setMetadata(prev => ({ ...prev, [name]: value }))
handleMetadataChange_001(name, value) ==
    /\ metadata' = SetField(metadata, name, value)
    /\ ev' = Event("metadata", FALSE)
    /\ out' = NoFx
    /\ UNCHANGED <<items, lastScanRef, lastScanTimeRef, toast, onScanRef, now,
                   frameDone, locale, nextId, observedAt>>
    /\ UNCHANGED <<scannerVars, insightVars, analysisVars, toastVars>>

\* an Analyze button that can always be pressed
AnalyzeNeverDisabled == FALSE

\* disabled={items.length === 0 || isAnalyzing}
AnalyzeDisabled == items = <<>> \/ isAnalyzing

\* The button is pressed.  if (items.length === 0) return;
\* setIsAnalyzing(true); await analyzeScannedItems(items): without a key the
\* function returns at once and handleAnalyze continues in the next
\* microtask; with a key generateContent is called and awaited.
handleAnalyze ==
    /\ ~AnalyzeDisabled
    /\ endpointCalls < MaxAnalyses
    /\ ev' = Event("analyze", FALSE)
    /\ out' = NoFx
    /\ IF Len(items) = 0
       THEN UNCHANGED <<insightVars, analysisVars>>
       ELSE /\ discarded' = FALSE
            /\ IF Falsy(API_KEY)
               THEN /\ call' = "settled"
                    /\ promise' = <<[fulfilled |-> TRUE, value |-> NOT_CONFIGURED]>>
                    /\ analysis' = <<NOT_CONFIGURED>>
                    /\ isAnalyzing' = FALSE
                    /\ UNCHANGED <<API_KEY, endpointCalls, endpoint, inFlight>>
               ELSE /\ call' = "awaiting"
                    /\ endpointCalls' = endpointCalls + 1
                    /\ endpoint' = <<>>
                    /\ promise' = <<>>
                    /\ isAnalyzing' = TRUE
                    /\ inFlight' = inFlight + 1
                    /\ UNCHANGED <<API_KEY, analysis>>
    /\ UNCHANGED <<items, metadata, lastScanRef, lastScanTimeRef, toast, onScanRef,
                   now, frameDone, locale, nextId, observedAt, scannerVars,
                   toastVars>>

\* generateContent settles with the given outcome; analyzeScannedItems
\* returns; const result = await ...; setAnalysis(result);
\* setIsAnalyzing(false).  A rejected promise would end handleAnalyze at its
\* await, before the two updates.
handleAnalyzeSettles(outcome) ==
    /\ call = "awaiting"
    /\ inFlight > 0
    /\ LET settled == IF outcome.ok
                      THEN [fulfilled |-> TRUE,
                            value |-> OrElse(outcome.text, NO_TEXT)]
                      ELSE Caught(outcome.text[1])
       IN /\ endpoint' = <<outcome>>
          /\ promise' = <<settled>>
          /\ IF settled.fulfilled
             THEN analysis' = <<settled.value>> /\ isAnalyzing' = FALSE
             ELSE UNCHANGED <<analysis, isAnalyzing>>
    /\ call' = "settled"
    /\ inFlight' = inFlight - 1
    /\ UNCHANGED <<API_KEY, endpointCalls, discarded, gateVars, scannerVars,
                   toastVars>>

\* the X of the analysis card: onClick={() => setAnalysis(null)}
dismissAnalysis ==
    /\ analysis # <<>>
    /\ analysis' = <<>>
    /\ UNCHANGED <<isAnalyzing, inFlight, discarded, gateVars, scannerVars,
                   insightVars, toastVars>>

Init_001 ==
    /\ items = <<>>
    /\ metadata = EmptyMetadata
    /\ lastScanRef = <<>>
    /\ lastScanTimeRef = 0
    /\ toast = <<>>
    /\ onScanRef = [items |-> <<>>, metadata |-> EmptyMetadata]
    /\ now = StartTime
    /\ frameDone = FALSE
    /\ locale = "ja-JP"
    /\ nextId = 1
    /\ observedAt = [p \in Payloads |-> -1]
    /\ ev = NoEvent
    /\ out = NoFx
    /\ InitScanner
    /\ InitInsight
    /\ InitAnalysis
    /\ InitToast
    /\ API_KEY \in {<<>>, <<<<"k">>>>}

Next_001 ==
    \/ \E c \in Payloads : handleScan_001(c, QR_CODE)
    \/ RefreshHandler_001
    \/ \E id \in 1..(nextId - 1) : handleDelete(id)
    \/ \E b \in BOOLEAN : handleClear_001(b)
    \/ \E v \in MetaValues : handleMetadataChange_001("schoolName", v)
    \/ handleAnalyze
    \/ \E outcome \in Outcomes : handleAnalyzeSettles(outcome)
    \/ dismissAnalysis
    \/ Tick

Spec_001 == Init_001 /\ [][Next_001]_vars

----------------------------------------------------------------------------
(* The toast and its removal timer (src/App.tsx, lines 28-34 and 55-57) *)

\* setTimeout(() => setToast(null), 3000)
ToastTimeout == 3000

\* scans arrive until LastScanTime; the clock then runs until every timer
\* that can be pending is due
LastScanTime == StartTime + ToastHorizon
ToastMaxTime == LastScanTime + ToastTimeout + TickMs

\* useEffect(() => { if (toast) { const timer = setTimeout(...);
\* return () => clearTimeout(timer) } }, [toast]).  React runs the effect
\* after the render in which toast changed, as a task of its own: first
\* the cleanup of the previous run, which cancels that run's timer, then
\* the body, which starts a timer when there is a toast.
toastEffect ==
    /\ effectToast # toast
    /\ effectToast' = toast
    /\ timer' = IF toast # <<>>
                THEN <<[shown |-> toast[1], due |-> now + ToastTimeout]>>
                ELSE <<>>
    /\ UNCHANGED <<gateVars, scannerVars, insightVars, analysisVars>>

\* the callback of the timeout, run by the browser once the timer is due:
\* setToast(null)
timerFires ==
    /\ timer # <<>>
    /\ timer[1].due <= now
    /\ toast' = <<>>
    /\ timer' = <<>>
    /\ UNCHANGED <<items, metadata, lastScanRef, lastScanTimeRef, onScanRef, now,
                   frameDone, locale, nextId, observedAt, ev, out, effectToast>>
    /\ UNCHANGED <<scannerVars, insightVars, analysisVars>>

\* the next animation frame, TickMs later.  A timer that is due fires and
\* a pending effect runs before the clock has moved that far; which of the
\* tasks ready at one time runs first is the browser's choice.
TickToast ==
    /\ now + TickMs <= ToastMaxTime
    /\ effectToast = toast
    /\ timer # <<>> => timer[1].due > now
    /\ now' = now + TickMs
    /\ frameDone' = FALSE
    /\ UNCHANGED <<items, metadata, lastScanRef, lastScanTimeRef, toast, onScanRef,
                   locale, nextId, observedAt, ev, out>>
    /\ UNCHANGED <<scannerVars, insightVars, analysisVars, toastVars>>

NextToast ==
    \/ \E c \in Payloads :
          /\ now <= LastScanTime
          /\ handleScan(c, QR_CODE)
          /\ UNCHANGED <<scannerVars, insightVars, analysisVars, toastVars>>
    \/ RefreshHandler
    \/ toastEffect
    \/ timerFires
    \/ TickToast

SpecToast == Init /\ [][NextToast]_vars

\* the effect runs, a due timer fires and the clock advances
FairSpecToast ==
    SpecToast /\ WF_vars(toastEffect) /\ WF_vars(timerFires) /\ WF_vars(TickToast)

----------------------------------------------------------------------------
(* Claims about the scan gate and the history store *)

\* C1: in every reachable state no two records of the history have the same
\* payload.
C1_UniquePayloads ==
    \A i, j \in 1..Len(items) : items[i].content = items[j].content => i = j

\* C2 (as stated): a scan of payload c less than Cooldown after an earlier
\* observation of c creates no record and emits no notification, whatever
\* happened between the two scans.
C2_DroppedWhateverIntervenes ==
    [][\A c \in Payloads :
          (handleScan(c, QR_CODE) /\ observedAt[c] >= 0
                                  /\ now - observedAt[c] < Cooldown)
          => (items' = items /\ out'.toasts = <<>>)]_vars

\* C2 (amended): a scan of payload c less than Cooldown after the last
\* observation of c, while c is still the last observed payload (no other
\* payload was observed and no clear-all was confirmed since), is dropped:
\* no record, no notification, no cue, and the cooldown state is unchanged,
\* whatever deletes, metadata edits and handler refreshes happened between.
C2_DroppedWhileLastObserved ==
    [][\A c \in Payloads :
          (handleScan(c, QR_CODE) /\ observedAt[c] >= 0
                                  /\ now - observedAt[c] < Cooldown
                                  /\ lastScanRef = <<c>>)
          => (/\ items' = items
              /\ out' = NoFx
              /\ toast' = toast
              /\ lastScanRef' = lastScanRef
              /\ lastScanTimeRef' = lastScanTimeRef)]_vars

\* a second scan of the last observed payload, one clock step after the
\* first, has just been dropped, the record of the first scan having been
\* deleted and the draft edited in between
C2_Witness ==
    /\ ev.op = "scan" /\ frameDone
    /\ out = NoFx
    /\ \E c \in Payloads : lastScanRef = <<c>> /\ observedAt[c] = now - TickMs
    /\ items = <<>> /\ nextId = 2
    /\ metadata # EmptyMetadata

\* C3: a scan of a payload c that is in the history and not inside the
\* cooldown window emits a warning notification and leaves the history
\* unchanged.
C3_DuplicateWarned ==
    [][\A c \in Payloads :
          (handleScan(c, QR_CODE) /\ isDuplicate(items, c) /\ ~InCooldown(c, now))
          => (out'.toasts = <<"warning">> /\ items' = items)]_vars

\* C4: a scan of a payload c that is not in the history and differs from
\* the payload observed before it creates exactly one record, at the front
\* of the history, the older records following in their order.
C4_NewestFirst ==
    [][\A c \in Payloads :
          (handleScan(c, QR_CODE) /\ ~isDuplicate(items, c) /\ lastScanRef # <<c>>)
          => (/\ Len(items') = Len(items) + 1
              /\ Head(items').content = c
              /\ Tail(items') = items)]_vars

\* C5: every record an accepted scan creates carries the values the metadata
\* draft holds at the moment of the scan.
C5_StampedWithDraft ==
    [][\A c \in Payloads :
          (handleScan(c, QR_CODE) /\ Len(items') = Len(items) + 1)
          => MetadataOf(Head(items')) = metadata]_vars

\* new is old with the one record of the given id taken out, or old itself
\* when no record has that id
RemovedExactly(old, new, id) ==
    IF \E k \in 1..Len(old) : old[k].id = id
    THEN \E k \in 1..Len(old) :
            /\ old[k].id = id
            /\ new = SubSeq(old, 1, k - 1) \o SubSeq(old, k + 1, Len(old))
    ELSE new = old

\* C6: delete(id) removes exactly the record with that id; the other records
\* keep their fields and their relative order; an absent id changes nothing.
C6_DeleteExactlyOne ==
    [][\A id \in 1..(nextId - 1) :
          handleDelete(id) => RemovedExactly(items, items', id)]_vars

\* the middle one of three records has just been deleted
C6_Witness ==
    /\ ev.op = "delete"
    /\ nextId = 4
    /\ Len(items) = 2 /\ items[1].id = 3 /\ items[2].id = 1

\* C7: a confirmed clear-all empties the history and keeps the metadata
\* draft; a declined one keeps history, draft and cooldown state.
C7_ClearFrame ==
    [][\A b \in BOOLEAN :
          handleClear(b)
          => IF b
             THEN items' = <<>> /\ metadata' = metadata
             ELSE /\ items' = items /\ metadata' = metadata
                  /\ lastScanRef' = lastScanRef
                  /\ lastScanTimeRef' = lastScanTimeRef]_vars

\* a clear-all has just been declined on a non-empty history with an edited
\* draft and a running cooldown
C7_Witness ==
    /\ ev = Event("clear", FALSE)
    /\ items # <<>>
    /\ metadata # EmptyMetadata
    /\ lastScanRef # <<>> /\ now - lastScanTimeRef < Cooldown

\* C8: a metadata edit sets the four metadata fields of every record to the
\* new draft and keeps id, payload, symbology, capture time, count and order.
C8_OverwriteFrame ==
    [][\A n \in FieldNames, v \in MetaValues :
          handleMetadataChange(n, v)
          => /\ Len(items') = Len(items)
             /\ \A i \in 1..Len(items) :
                   /\ MetadataOf(items'[i]) = metadata'
                   /\ items'[i].id = items[i].id
                   /\ items'[i].content = items[i].content
                   /\ items'[i].format = items[i].format
                   /\ items'[i].timestamp = items[i].timestamp]_vars

\* the draft has just been edited over a history of two records
C8_Witness ==
    /\ ev.op = "metadata"
    /\ Len(items) = 2
    /\ metadata # EmptyMetadata
    /\ \A i \in 1..2 : MetadataOf(items[i]) = metadata

----------------------------------------------------------------------------
(* Claims about the exporter *)

\* strip the enclosing quotes of a written field
StripQuotes(f) == SubSeq(f, 2, Len(f) - 1)

\* halve the doubled quotes of a text
RECURSIVE HalveQuotes(_)
HalveQuotes(s) ==
    IF s = <<>> THEN <<>>
    ELSE IF Len(s) >= 2 /\ s[1] = DQ /\ s[2] = DQ
         THEN <<DQ>> \o HalveQuotes(SubSeq(s, 3, Len(s)))
         ELSE <<Head(s)>> \o HalveQuotes(Tail(s))

Unescape(f) == HalveQuotes(StripQuotes(f))

\* every quote of the text is one of a pair of adjacent quotes
RECURSIVE QuotesDoubled(_)
QuotesDoubled(s) ==
    IF s = <<>> THEN TRUE
    ELSE IF Head(s) # DQ THEN QuotesDoubled(Tail(s))
    ELSE Len(s) >= 2 /\ s[2] = DQ /\ QuotesDoubled(SubSeq(s, 3, Len(s)))

\* the field is enclosed in double quotes, the quotes inside it doubled
IsQuotedField(f) ==
    /\ Len(f) >= 2
    /\ f[1] = DQ /\ f[Len(f)] = DQ
    /\ QuotesDoubled(StripQuotes(f))

\* the columns of a row that hold a payload or a metadata value
TextColumns == {1, 2, 3, 4, 6}

TextValue(item, k) ==
    CASE k = 1 -> item.schoolName
      [] k = 2 -> item.grade
      [] k = 3 -> item.className
      [] k = 4 -> item.inputterName
      [] k = 6 -> item.content

\* the text an export handler has just written, without the byte-order mark
Written ==
    IF out.download # <<>> THEN Tail(out.download[1]) ELSE out.clipboard[1]

\* C9: in an export just written, every row holds each payload and metadata
\* value enclosed in double quotes with its quotes doubled, un-escaping the
\* written field gives the value back, and He said "hi" is written as
\* "He said ""hi""".
C9_EscapeRoundTrip ==
    (out.download # <<>> \/ out.clipboard # <<>>)
    => /\ Written = CsvText(items, locale)
       /\ \A i \in 1..Len(items) : \A k \in TextColumns :
             LET f == RowFields(items[i], locale)[k]
             IN /\ IsQuotedField(f)
                /\ Unescape(f) = TextValue(items[i], k)
                /\ (TextValue(items[i], k) = HeSaidHi
                      => f = <<DQ, "H", "e", " ", "s", "a", "i", "d", " ",
                               DQ, DQ, "h", "i", DQ, DQ, DQ>>)

\* a history whose newest payload is He said "hi", whose older payload
\* starts with a quote and whose draft holds two quotes has just been
\* downloaded
C9_Witness ==
    /\ out.download # <<>>
    /\ Len(items) = 2
    /\ items[1].content = HeSaidHi
    /\ items[2].content = <<DQ, "a">>
    /\ items[1].schoolName = <<DQ, DQ>>

\* C10: the downloaded text starts with the byte-order mark and each of the
\* seven fields of every data row is enclosed in double quotes with its
\* quotes doubled.
C10_AllFieldsQuoted ==
    out.download # <<>>
    => /\ Head(out.download[1]) = BOM
       /\ \A i \in 1..Len(items) : \A k \in 1..7 :
             IsQuotedField(RowFields(items[i], locale)[k])

\* C11: when the history is empty, copy-all and CSV download write nothing to
\* the clipboard, download nothing, and leave the history, the draft and the
\* cooldown state (last payload, last time) as they were.
C11_EmptyExportIsNoOp ==
    [][items = <<>> =>
          /\ out' = NoFx
          /\ UNCHANGED <<items, metadata, lastScanRef, lastScanTimeRef>>]_vars

\* an export handler has just run on the empty history
C11_Witness ==
    /\ items = <<>>
    /\ ev.op \in {"copy", "download"}
    /\ out = NoFx

----------------------------------------------------------------------------
(* Claims about the analysis service *)

\* The value the settled promise of analyzeScannedItems was fulfilled with
Returned == promise[1].value

\* C12: without a credential or with an empty item list the function calls
\* the endpoint not at all and returns one of the two advisory strings;
\* without a credential it is the "not configured" one, whatever the list.
C12_NoCallWithoutInput ==
    (call # "idle" /\ (Falsy(API_KEY) \/ items = <<>>))
    => /\ call = "settled"
       /\ endpointCalls = 0
       /\ promise # <<>> /\ promise[1].fulfilled
       /\ Returned \in {NOT_CONFIGURED, NO_ITEMS}
       /\ Falsy(API_KEY) => Returned = NOT_CONFIGURED

\* no credential and an empty list: the "not configured" string, no call
C12_Witness ==
    /\ call = "settled"
    /\ API_KEY = <<>>
    /\ items = <<>>
    /\ Returned = NOT_CONFIGURED
    /\ endpointCalls = 0

\* C13: the promise of analyzeScannedItems is never rejected: whenever it has
\* settled it is fulfilled, and after a failed call its value is the failure
\* message.
C13_NeverRejects ==
    /\ promise # <<>> => promise[1].fulfilled
    /\ call = "settled" => promise # <<>>
    /\ (endpoint # <<>> /\ ~endpoint[1].ok) => Returned = FAILED

\* the call was made and threw
C13_Witness ==
    /\ call = "settled"
    /\ endpointCalls = 1
    /\ endpoint # <<>> /\ ~endpoint[1].ok
    /\ Returned = FAILED

\* The call was made and succeeded with a response whose text is defined
Succeeded == endpoint # <<>> /\ endpoint[1].ok /\ endpoint[1].text # <<>>

\* C14 (as claimed): with a credential and a non-empty list the endpoint is
\* called exactly once and, when the call succeeds, the function returns the
\* text of the response, whatever that text is, the empty one included.
C14_ReturnsResponseText ==
    (call = "settled" /\ ~Falsy(API_KEY) /\ items # <<>>)
    => /\ endpointCalls = 1
       /\ Succeeded => Returned = endpoint[1].text[1]

\* C14 (amended): the endpoint is called exactly once; a successful call's
\* non-empty text is returned as it is, and for an empty or absent text the
\* function returns "Could not generate analysis."
C14_ReturnsTextOrFallback ==
    (call = "settled" /\ ~Falsy(API_KEY) /\ items # <<>>)
    => /\ endpointCalls = 1
       /\ (endpoint[1].ok /\ ~Falsy(endpoint[1].text))
             => Returned = endpoint[1].text[1]
       /\ (endpoint[1].ok /\ Falsy(endpoint[1].text)) => Returned = NO_TEXT

\* a successful call whose response text is empty
C14_Witness ==
    /\ call = "settled"
    /\ endpointCalls = 1
    /\ endpoint # <<>> /\ endpoint[1].ok /\ endpoint[1].text = <<<<>>>>
    /\ Returned = NO_TEXT

----------------------------------------------------------------------------
(* Claims about the Scanner *)

\* C15: while the Scanner stays mounted no step issues a further camera
\* request or stops a stream: the camera is acquired once per activation.
C15_AcquiredOnce ==
    [][(mounted /\ mounted')
          => /\ Len(runs') = Len(runs)
             /\ \A k \in 1..Len(runs) : runs'[k].stopped = runs[k].stopped]_vars

\* The Scanner has been deactivated and nothing of it is left to happen: no
\* camera request is pending and no frame callback is scheduled.
Deactivated ==
    /\ ~mounted
    /\ \A k \in 1..Len(runs) : runs[k].request # "pending"
    /\ scheduled = {}

\* C16: after the Scanner is deactivated the tracks of every stream that was
\* granted are stopped, also of a stream granted after the cleanup.
C16_ReleasedAfterCleanup ==
    Deactivated
    => \A k \in 1..Len(runs) : runs[k].request = "granted" => runs[k].stopped

\* C17: once a camera request has failed, the status stays PERMISSION_DENIED
\* and no further request is issued while the Scanner lives.
C17_DenialIsTerminal ==
    [][((\E k \in 1..Len(runs) : runs[k].request = "denied") /\ mounted')
          => /\ status' = PERMISSION_DENIED
             /\ Len(runs') = Len(runs)]_vars

\* C18: while scanning is paused a frame callback of any loop leaves the
\* history, the cooldown state and the notification alone and plays no cue,
\* and, the video being there, requests the next frame.
C18_PausedLoopIdle ==
    [][\A k \in 1..MaxRuns :
          (isScanningPaused /\ scanFrame(k))
          => /\ UNCHANGED <<items, lastScanRef, lastScanTimeRef, toast, out>>
             /\ HasVideo => k \in scheduled']_vars

\* C19: at every moment at most one frame callback is scheduled.
C19_SingleLoop == Cardinality(scheduled) <= 1

\* C20: when no handler refresh is pending, every record of the history
\* carries the four values of the current metadata draft.
C20_SettledMatchesDraft ==
    onScanRef = [items |-> items, metadata |-> metadata]
    => \A i \in 1..Len(items) : MetadataOf(items[i]) = metadata

----------------------------------------------------------------------------
(* Further claims about the scan gate and the history store *)

\* C22: the cooldown decision ignores the history.  A scan of the last
\* observed payload c whose record is no longer in the history is dropped
\* silently when it comes less than Cooldown after that observation, and
\* creates a new record of c when it comes Cooldown or more after it.
C22_CooldownIgnoresHistory ==
    [][\A c \in Payloads :
          (handleScan(c, QR_CODE) /\ lastScanRef = <<c>> /\ ~isDuplicate(items, c))
          => IF now - lastScanTimeRef < Cooldown
             THEN items' = items /\ out' = NoFx
             ELSE /\ Len(items') = Len(items) + 1
                  /\ Head(items').content = c]_vars

\* C23: after a confirmed clear-all a scan of any payload is not dropped and
\* creates a new record, also a scan of the payload observed last and less
\* than Cooldown ago.
C23_ClearResetsCooldown ==
    [][\A c \in Payloads :
          (handleScan(c, QR_CODE) /\ ev = Event("clear", TRUE))
          => /\ Len(items') = 1
             /\ Head(items').content = c]_vars

\* C24: a scan dropped by the cooldown changes neither history, draft,
\* notification, last observed payload nor last observation time and plays
\* no cue; the window is measured from the last scan that was not dropped.
C24_DroppedChangesNothing ==
    [][/\ \A c \in Payloads :
             (handleScan(c, QR_CODE) /\ lastScanRef = <<c>>
                                     /\ now - lastScanTimeRef < Cooldown)
             => /\ UNCHANGED <<items, metadata, toast, lastScanRef, lastScanTimeRef>>
                /\ out' = NoFx
       /\ lastScanRef' # <<>> => lastScanTimeRef' = observedAt'[lastScanRef'[1]]]_vars

\* a scan has just been dropped one clock step after the observation, the
\* record and the notification of that observation being in place
C24_Witness ==
    /\ ev.op = "scan" /\ frameDone
    /\ out = NoFx
    /\ lastScanRef # <<>> /\ lastScanTimeRef = now - TickMs
    /\ items # <<>> /\ Head(items).content = lastScanRef[1]
    /\ toast # <<>>

\* C25: in every reachable state the history is ordered newest first: a
\* record nearer the front has a capture time not less than a later one's.
C25_OrderedByTime ==
    \A i, j \in 1..Len(items) : i < j => items[i].timestamp >= items[j].timestamp

\* three records of three clock steps, the middle one deleted
C25_Witness ==
    /\ Len(items) = 2
    /\ items[1].id = 3 /\ items[2].id = 1
    /\ items[1].timestamp > items[2].timestamp

\* C26: a scan that is not dropped plays the cue once and emits one
\* notification: success with exactly one new record, or the duplicate
\* warning with the history unchanged; no scan adds more than one record.
C26_OneCueOneNotification ==
    [][\A c \in Payloads :
          handleScan(c, QR_CODE)
          => /\ Len(items') <= Len(items) + 1
             /\ ~(lastScanRef = <<c>> /\ now - lastScanTimeRef < Cooldown)
                => /\ out'.beeps = 1
                   /\ \/ /\ out'.toasts = <<"success">>
                         /\ toast' # <<>> /\ toast'[1].type = "success"
                         /\ Len(items') = Len(items) + 1
                         /\ Tail(items') = items
                      \/ /\ out'.toasts = <<"warning">>
                         /\ toast' # <<>> /\ toast'[1].type = "warning"
                         /\ items' = items]_vars

\* a duplicate has just been answered with one cue and the warning
C26_Witness ==
    /\ ev.op = "scan"
    /\ out.beeps = 1 /\ out.toasts = <<"warning">>
    /\ items # <<>>

C28_DraftChangedByEditOnly ==
    [][/\ metadata' # metadata => ev' = Event("metadata", FALSE)
       /\ \A n \in FieldNames, v \in MetaValues :
             handleMetadataChange(n, v)
             => /\ metadata'[n] = v
                /\ \A m \in FieldNames \ {n} : metadata'[m] = metadata[m]]_vars

\* a second field has just been edited, the first edit still standing
C28_Witness ==
    /\ ev.op = "metadata"
    /\ metadata.schoolName # <<>> /\ metadata.inputterName # <<>>
    /\ items # <<>>

----------------------------------------------------------------------------
(* Claims about the App variant with AI analysis *)

\* C21: from a confirmed clear-all until the user starts a new analysis the
\* displayed analysis is empty, also when a request was in flight at the
\* time of the clear.
C21_ClearDiscardsAnalysis == discarded => analysis = <<>>

\* C29: when the call settles, with a response or an error, the analyzing
\* flag returns to false and the analysis is the string analyzeScannedItems
\* returned; while the flag is true no request is started, so at most one
\* request is in flight, and the flag is true while one is.
C29_OneRequestFlagReturns ==
    [][/\ \A o \in Outcomes :
             handleAnalyzeSettles(o)
             => /\ isAnalyzing' = FALSE
                /\ promise'[1].fulfilled
                /\ analysis' = <<promise'[1].value>>
                /\ ~o.ok => analysis' = <<FAILED>>
       /\ isAnalyzing => inFlight' <= inFlight
       /\ inFlight' <= 1
       /\ inFlight' > 0 => isAnalyzing']_vars

\* the second request has failed and its failure message is displayed
C29_Witness ==
    /\ endpointCalls = 2
    /\ call = "settled" /\ inFlight = 0
    /\ endpoint # <<>> /\ ~endpoint[1].ok
    /\ ~isAnalyzing
    /\ analysis = <<FAILED>>

----------------------------------------------------------------------------
(* Further claims about the exporter *)

\* A reader of CSV text.  A comma ends a cell and a line feed ends a row
\* unless they stand inside quotes, that is, after an odd number of quote
\* characters; a cell that starts with a quote is read without its
\* enclosing quotes, a doubled quote inside being one quote.
QuotesBefore(text, p) == Cardinality({q \in 1..(p - 1) : text[q] = DQ})

\* the places of the character ch outside quotes
Breaks(text, ch) ==
    {p \in 1..Len(text) : text[p] = ch /\ QuotesBefore(text, p) % 2 = 0}

\* the pieces of text between those places
Split(text, ch) ==
    LET B == Breaks(text, ch)
        n == Cardinality(B)
        At(k) == IF k = 0 THEN 0
                 ELSE IF k = n + 1 THEN Len(text) + 1
                 ELSE CHOOSE p \in B : Cardinality({q \in B : q < p}) = k - 1
    IN [k \in 1..(n + 1) |-> SubSeq(text, At(k - 1) + 1, At(k) - 1)]

ReadCell(f) == IF f # <<>> /\ Head(f) = DQ THEN Unescape(f) ELSE f

\* the rows of the text, each the sequence of its cells
ReadCsv(text) ==
    LET lines == Split(text, "\n")
    IN [i \in 1..Len(lines) |->
          LET cells == Split(lines[i], ",")
          IN [k \in 1..Len(cells) |-> ReadCell(cells[k])]]

\* the rows a reader finds in the downloaded file, the BOM taken off
DownloadedRows == ReadCsv(Tail(out.download[1]))

\* the seven column titles, in the order of the header line
HeaderCells ==
    <<<<"schoolName">>, <<"grade">>, <<"className">>, <<"inputterName">>,
      <<"timestamp">>, <<"content">>, <<"format">>>>

\* the seven values of a record in the order of the header columns
RecordCells(item, loc) ==
    <<item.schoolName, item.grade, item.className, item.inputterName,
      toLocaleString(item.timestamp, loc), item.content, item.format>>

\* C30: the CSV file of a non-empty history reads as the header row followed
\* by one row per record in history order, each row giving the record's
\* seven values under the seven header columns.
C30_HeaderAndRowPerRecord ==
    (out.download # <<>> /\ items # <<>>)
    => /\ Len(DownloadedRows) = 1 + Len(items)
       /\ DownloadedRows[1] = HeaderCells
       /\ \A i \in 1..Len(items) :
             DownloadedRows[i + 1] = RecordCells(items[i], locale)

\* C32: for a non-empty history the text copy-all writes to the clipboard
\* is the text of the downloaded file without its byte-order marker: what
\* either handler has written is what the other writes for the history.
C32_ClipboardIsCsvWithoutBom ==
    /\ out.clipboard # <<>>
       => out.clipboard[1] = Tail(CsvContent(items, locale))
    /\ out.download # <<>>
       => /\ Head(out.download[1]) = BOM
          /\ Tail(out.download[1]) = CopyText(items, locale)

\* two records, one with quotes in its payload, copied in a locale whose
\* dates have a comma
C32_Witness ==
    /\ ev.op = "copy" /\ out.clipboard # <<>>
    /\ Len(items) = 2 /\ locale = "en-US"
    /\ \E i \in 1..Len(items) : \E k \in 1..Len(items[i].content) :
          items[i].content[k] = DQ

----------------------------------------------------------------------------
(* Claims about the toast *)

\* C31: a notification is removed by the timer started for it, 3000 ms
\* after it was shown, and by nothing else; when a newer notification has
\* replaced it the pending removal is cancelled and the timer restarts for
\* the newer one, so a timer never removes a notification newer than the
\* one it was started for.
C31_RemovedByItsOwnTimer ==
    [][/\ (toast # <<>> /\ toast' # toast)
          => \/ ev' = Event("scan", FALSE) /\ toast' # <<>>
             \/ /\ toast' = <<>>
                /\ timer # <<>> /\ timer[1].shown = toast[1]
                /\ now >= toast[1].id + ToastTimeout
       /\ (toastEffect /\ toast # <<>>)
          => timer' = <<[shown |-> toast[1], due |-> toast[1].id + ToastTimeout]>>
      ]_vars

\* once the scans have ended the notification is eventually absent for good
ToastEventuallyAbsent == <>[](toast = <<>>)

====
